---- MODULE Spec2Model ----
(***************************************************************************)
(* Sequential code generator (IDGenerator, modules/sql_utils.py) and the   *)
(* create operations of DatabaseManager (modules/database.py) that use it. *)
(*                                                                         *)
(* A string is a sequence of one-character strings, so that slicing,       *)
(* int(), the 04d format, ord() and chr() are computed as Python computes  *)
(* them.                                                                   *)
(***************************************************************************)
EXTENDS Integers, Sequences, FiniteSets, TLC

\* ------------------------------------------------------------------------
\* Characters
\* ------------------------------------------------------------------------

\* The code points 48 ("0") .. 122 ("z") in order: the table behind ord/chr.
\* "bsl" stands for the backslash (92) and "grv" for the grave accent (96).
Ascii ==
  <<
     "0", "1", "2", "3", "4", "5", "6", "7", "8", "9", ":", ";", "<", "=", ">",
     "?", "@", "A", "B", "C", "D", "E", "F", "G", "H", "I", "J", "K", "L", "M",
     "N", "O", "P", "Q", "R", "S", "T", "U", "V", "W", "X", "Y", "Z", "[", "bsl",
     "]", "^", "_", "grv", "a", "b", "c", "d", "e", "f", "g", "h", "i", "j", "k",
     "l", "m", "n", "o", "p", "q", "r", "s", "t", "u", "v", "w", "x", "y", "z"
  >>

\* ord(c) and chr(n): Ascii[1] is code point 48.
OrdTable == [c \in {Ascii[i] : i \in 1..Len(Ascii)} |->
               47 + (CHOOSE i \in 1..Len(Ascii) : Ascii[i] = c)]

Ord(c) == OrdTable[c]

Chr(n) == Ascii[n - 47]

IsDigit(c) == Ord(c) >= Ord("0") /\ Ord(c) <= Ord("9")

IsUpper(c) == Ord(c) >= Ord("A") /\ Ord(c) <= Ord("Z")

\* Python's None.
None == <<"None">>

\* ------------------------------------------------------------------------
\* Numbers beyond 32 bits: <<hi, lo>> stands for hi * 10000 + lo, lo < 10000
\* ------------------------------------------------------------------------

BigLess(a, b) == a[1] < b[1] \/ (a[1] = b[1] /\ a[2] < b[2])

BigLeq(a, b) == a = b \/ BigLess(a, b)

BigSucc(a) == IF a[2] = 9999 THEN <<a[1] + 1, 0>> ELSE <<a[1], a[2] + 1>>

\* ------------------------------------------------------------------------
\* int(str) and format(n, "04d")
\* ------------------------------------------------------------------------

\* The strings int() accepts, over the characters of Ascii: decimal digits,
\* with single underscores allowed between digits.
IntParses(s) ==
  /\ Len(s) > 0
  /\ \A i \in 1..Len(s) : IsDigit(s[i]) \/ s[i] = "_"
  /\ IsDigit(s[1])
  /\ IsDigit(s[Len(s)])
  /\ \A i \in 1..(Len(s) - 1) : ~(s[i] = "_" /\ s[i + 1] = "_")

RECURSIVE IntValue(_)
IntValue(s) ==
  IF s = <<>> THEN 0
  ELSE LET c == s[Len(s)]
           front == SubSeq(s, 1, Len(s) - 1)
       IN IF c = "_" THEN IntValue(front)
          ELSE 10 * IntValue(front) + (Ord(c) - Ord("0"))

RECURSIVE DecStr(_)
DecStr(n) ==
  IF n < 10 THEN <<Chr(Ord("0") + n)>>
  ELSE DecStr(n \div 10) \o <<Chr(Ord("0") + (n % 10))>>

RECURSIVE ZeroPad(_, _)
ZeroPad(s, width) == IF Len(s) >= width THEN s ELSE ZeroPad(<<"0">> \o s, width)

\* Number of characters of the letter prefix, and of the formatted suffix.
PrefixLen == 4

\* Format04d without the zero padding.
FormatUnpadded(n) == DecStr(n)

\* f"{digits:04d}" for digits >= 0
Format04d(n) == ZeroPad(DecStr(n), PrefixLen)

\* ------------------------------------------------------------------------
\* IDGenerator._increment_code
\* ------------------------------------------------------------------------

\* Largest digit suffix that does not carry into the letters.
MaxDigits == 9999

Returned(v) == [ok |-> TRUE, val |-> v]

Raised(e) == [ok |-> FALSE, val |-> <<e>>]

\* IncrementLetters with a Z left in place instead of reset to A.
RECURSIVE IncrementLettersNoReset(_, _)
IncrementLettersNoReset(letters, i) ==
  IF i < 1 THEN Returned(letters)
  ELSE IF i > Len(letters) THEN Raised("IndexError")
  ELSE IF Ord(letters[i]) < Ord("Z")
       THEN Returned([letters EXCEPT ![i] = Chr(Ord(letters[i]) + 1)])
       ELSE IncrementLettersNoReset(letters, i - 1)

\* The loop `for i in range(3, -1, -1)` from (1-based) position i downward.
RECURSIVE IncrementLetters(_, _)
IncrementLetters(letters, i) ==
  IF i < 1 THEN Returned(letters)
  ELSE IF i > Len(letters) THEN Raised("IndexError")
  ELSE IF Ord(letters[i]) < Ord("Z")
       THEN Returned([letters EXCEPT ![i] = Chr(Ord(letters[i]) + 1)])
       ELSE IncrementLetters([letters EXCEPT ![i] = "A"], i - 1)

\* increment_code with the digits not reset on a carry.
increment_code_keep_digits(code) ==
  LET letters == SubSeq(code, 1, IF Len(code) < PrefixLen THEN Len(code) ELSE PrefixLen)
      tail == SubSeq(code, PrefixLen + 1, Len(code))
  IN IF ~IntParses(tail) THEN Raised("ValueError")
     ELSE LET digits == IntValue(tail) + 1
          IN IF digits <= MaxDigits
             THEN Returned(letters \o Format04d(digits))
             ELSE LET inc == IncrementLetters(letters, PrefixLen)
                  IN IF inc.ok THEN Returned(inc.val \o Format04d(digits)) ELSE inc

\* IDGenerator._increment_code: the new code, or the exception raised.
increment_code(code) ==
  LET letters == SubSeq(code, 1, IF Len(code) < PrefixLen THEN Len(code) ELSE PrefixLen)
      tail == SubSeq(code, PrefixLen + 1, Len(code))
  IN IF ~IntParses(tail) THEN Raised("ValueError")
     ELSE LET digits == IntValue(tail) + 1
          IN IF digits <= MaxDigits
             THEN Returned(letters \o Format04d(digits))
             ELSE LET inc == IncrementLetters(letters, PrefixLen)
                  IN IF inc.ok THEN Returned(inc.val \o Format04d(0)) ELSE inc


\* ------------------------------------------------------------------------
\* State
\* ------------------------------------------------------------------------

VARIABLES
  seq_in,     \* the string handed to _increment_code
  seq_out,    \* what the call returned or raised; NotCalled before the call
  al_tbl,     \* the code column of one series, in row order
  al_ret,     \* what the last next_code call on al_tbl gave; NotCalled when
              \* there was none since the last insert
  al_calls,   \* number of next_code calls since the last insert
  stops,      \* MANIFEST_DESTINATIONS: rows [MANIFEST_NO, DROP_NO], in row order
  shipments,  \* SHIPMENT_DETAIL: rows [ORDER_ID, DROP_NO, SID]
  sids,       \* SID: rows [SID_ID, ORDER_ID, SID_NUMBER]
  osds,       \* OSD: rows [OSD_INDEX, ORDER_ID]
  pc,         \* per session: the statement its running operation is at
  loc,        \* per session: the locals of its running operation
  collided,   \* whether a stop_exists check of insert_stop has reported its
              \* candidate as taken
  manifests,  \* MANIFEST: the MANIFEST_NO of its rows, in row order
  ss,         \* st.session_state of the one user of the forms
  ui          \* the button handler that ran last and the level of the entry
              \* it wrote to the log

seqVars == <<seq_in, seq_out>>

allocVars == <<al_tbl, al_ret, al_calls>>

tables == <<stops, shipments, sids, osds>>

dbVars == <<stops, shipments, sids, osds, pc, loc, collided>>

uiVars == <<manifests, ss, ui>>

vars == <<seq_in, seq_out, al_tbl, al_ret, al_calls, stops, shipments, sids, osds, pc, loc,
          collided, manifests, ss, ui>>

NotCalled == [ok |-> FALSE, val |-> <<"not called">>]

\* Number of concurrent user sessions, each with its own DatabaseManager.
NumSessions == 2

Sessions == 1..NumSessions

\* The locals of an operation: its argument (manifest, stop, order or row),
\* the candidate code (the exception, once one is raised), the SID numbers
\* still to insert, the rows it may add, and the next_code calls it made.
NoLocals == [arg |-> None, code |-> None, todo |-> <<>>, room |-> 0, calls |-> 0]

\* A key that st.session_state does not hold.
Absent == <<"Absent">>

\* SessionManager._initialize_defaults, run by the constructor at the start
\* of every script run: the four default keys are set where they are missing.
initialize_defaults(state) ==
  [state EXCEPT
     !.mode = IF @ = Absent THEN <<"create">> ELSE @,
     !.current_manifest_no = IF @ = Absent THEN None ELSE @,
     !.last_created_manifest = IF @ = Absent THEN None ELSE @,
     !.current_stop_drop_no = IF @ = Absent THEN None ELSE @]

\* st.session_state without a key: the five keys of SessionManager's
\* getters, and the orders whose "sids_<order>_open", "sids_<order>_rows"
\* and "osd_<order>_open" keys it holds.
EmptySessionState ==
  [mode |-> Absent, current_manifest_no |-> Absent, last_created_manifest |-> Absent,
   current_stop_drop_no |-> Absent, selected_stop_drop_no |-> Absent,
   sids_open |-> {}, sids_rows |-> {}]

\* No button handler has run yet.
NoClick == [log |-> "none"]

\* An empty store with no operation running, and a user session at its
\* first script run.
DbIdle ==
  /\ stops = <<>>
  /\ shipments = <<>>
  /\ sids = <<>>
  /\ osds = <<>>
  /\ pc = [s \in Sessions |-> "idle"]
  /\ loc = [s \in Sessions |-> NoLocals]
  /\ collided = FALSE
  /\ manifests = <<>>
  /\ ss = initialize_defaults(EmptySessionState)
  /\ ui = NoClick

\* ------------------------------------------------------------------------
\* The code format as the specification defines it (section 3)
\* ------------------------------------------------------------------------

Alphabet == <<"A", "B", "C", "D", "E", "F", "G", "H", "I", "J", "K", "L", "M",
              "N", "O", "P", "Q", "R", "S", "T", "U", "V", "W", "X", "Y", "Z">>

DecimalDigits == <<"0", "1", "2", "3", "4", "5", "6", "7", "8", "9">>

Range(f) == {f[i] : i \in DOMAIN f}

CodeLen == 8

WellFormed(code) ==
  /\ Len(code) = CodeLen
  /\ \A i \in 1..4 : code[i] \in Range(Alphabet)
  /\ \A i \in 5..8 : code[i] \in Range(DecimalDigits)

LetterIndex(c) == (CHOOSE i \in 1..Len(Alphabet) : Alphabet[i] = c) - 1

DigitIndex(c) == (CHOOSE i \in 1..Len(DecimalDigits) : DecimalDigits[i] = c) - 1

\* The letters of a well-formed code as a base-26 big-endian number, A = 0.
PrefixValue(code) ==
  LetterIndex(code[1]) * 17576 + LetterIndex(code[2]) * 676
    + LetterIndex(code[3]) * 26 + LetterIndex(code[4])

\* The digits of a well-formed code as a base-10 number.
SuffixValue(code) ==
  DigitIndex(code[5]) * 1000 + DigitIndex(code[6]) * 100
    + DigitIndex(code[7]) * 10 + DigitIndex(code[8])

\* The composite order of section 3: PrefixValue * 10000 + SuffixValue, as
\* the two-limb number <<PrefixValue, SuffixValue>> in base 10000.
CompositeValue(code) == <<PrefixValue(code), SuffixValue(code)>>

Prefix(code) == SubSeq(code, 1, 4)

Suffix(code) == SubSeq(code, 5, Len(code))

MinCode == <<"A", "A", "A", "A", "0", "0", "0", "0">>

LastCode == <<"Z", "Z", "Z", "Z", "9", "9", "9", "9">>

\* ------------------------------------------------------------------------
\* Inputs of the sequencer
\* ------------------------------------------------------------------------

\* The well-formed inputs: every prefix over the LetterEdge first and last
\* letters of A..Z, with every suffix within DigitEdge of 0000 or of 9999
\* and the suffixes around the carries between digits.
LetterEdge == 2

DigitEdge == 2

EdgeLetters ==
  {Alphabet[k] : k \in 1..LetterEdge}
    \cup {Alphabet[Len(Alphabet) + 1 - k] : k \in 1..LetterEdge}

SuffixNumbers ==
  (0..DigitEdge) \cup ((9999 - DigitEdge)..9999)
    \cup {9, 10, 99, 100, 999, 1000, 4321}

\* The four-digit string of n in 0..9999.
FourDigits(n) ==
  << DecimalDigits[(n \div 1000) + 1], DecimalDigits[((n \div 100) % 10) + 1],
     DecimalDigits[((n \div 10) % 10) + 1], DecimalDigits[(n % 10) + 1] >>

WellFormedInputs ==
  {p \o FourDigits(n) : p \in [1..4 -> EdgeLetters], n \in SuffixNumbers}

\* Strings that do not match the format: wrong length, lowercase letters,
\* a letter or an underscore in the suffix, a digit in the prefix.
MalformedInputs ==
  { <<>>,
    <<"A", "A", "A">>,
    <<"A", "A", "A", "A">>,
    <<"A", "A", "A", "A", "0", "0", "0">>,
    <<"A", "A", "A", "A", "0", "0", "0", "0", "0">>,
    <<"A", "A", "A", "A", "9", "9", "9", "9", "9">>,
    <<"a", "a", "a", "a", "0", "0", "0", "0">>,
    <<"a", "a", "a", "a", "9", "9", "9", "9">>,
    <<"A", "A", "A", "a", "9", "9", "9", "9">>,
    <<"A", "A", "A", "A", "0", "0", "0", "x">>,
    <<"A", "A", "A", "A", "9", "_", "9", "9">>,
    <<"A", "A", "A", "A", "_", "9", "9", "9">>,
    <<"A", "A", "1", "A", "9", "9", "9", "9">>,
    <<"A", "Z", "9", "Z", "9", "9", "9", "9">>,
    <<"L", "E", "G", "A", "C", "Y", "1">>,
    <<"a", "a", "a", "Z", "0", "0", "0", "9">>,
    <<"Z", "Z", "Z", "Z", "9", "9", "9", "9", "9">> }

SeqInputs == WellFormedInputs \cup MalformedInputs

\* ------------------------------------------------------------------------
\* Specification of the sequencer alone: one call on a drawn input
\* ------------------------------------------------------------------------

SeqInit ==
  /\ seq_in \in SeqInputs
  /\ seq_out = NotCalled
  /\ al_tbl = <<>>
  /\ al_ret = NotCalled
  /\ al_calls = 0
  /\ DbIdle

SeqIncrement ==
  /\ seq_out = NotCalled
  /\ seq_out' = increment_code(seq_in)
  /\ UNCHANGED <<seq_in, allocVars, dbVars, uiVars>>

SeqNext == SeqIncrement

SpecSeq == SeqInit /\ [][SeqNext]_vars


\* ------------------------------------------------------------------------
\* IDGenerator._get_max_code and IDGenerator.next_code
\* ------------------------------------------------------------------------

\* regexp_like matching letters of either case.
regexp_like_any_case(v) ==
  /\ Len(v) = CodeLen
  /\ \A i \in 1..PrefixLen : IsUpper(v[i]) \/ (Ord(v[i]) >= Ord("a") /\ Ord(v[i]) <= Ord("z"))
  /\ \A i \in (PrefixLen + 1)..CodeLen : IsDigit(v[i])

\* REGEXP_LIKE(column, '^[A-Z]{4}[0-9]{4}$')
regexp_like(v) ==
  /\ Len(v) = CodeLen
  /\ \A i \in 1..PrefixLen : IsUpper(v[i])
  /\ \A i \in (PrefixLen + 1)..CodeLen : IsDigit(v[i])

\* Number of letters of the alphabet: the radix of the ORDER BY expression.
Radix == 26

\* Weight of the letters against the digits in the ORDER BY expression.
DigitSpan == 10000

\* The ORDER BY expression of the query, on a value the WHERE clause kept.
\* Its value L * 10000 + d exceeds 32 bits, so it is held exactly as the
\* two-limb number <<L, d>> in base 10000 (d = TO_NUMBER of four digits).
order_key(v) ==
  << (Ord(v[1]) - Ord("A")) * Radix * Radix * Radix
       + (Ord(v[2]) - Ord("A")) * Radix * Radix
       + (Ord(v[3]) - Ord("A")) * Radix
       + (Ord(v[4]) - Ord("A")),
     IntValue(SubSeq(v, PrefixLen + 1, CodeLen)) >>

\* get_max_code without the ORDER BY, the store returning the newest row.
get_max_code_last_row(tbl) ==
  LET kept == SelectSeq(tbl, regexp_like)
  IN IF kept = <<>> THEN None ELSE kept[Len(kept)]

\* get_max_code without the ORDER BY: the first row the WHERE clause kept.
get_max_code_unordered(tbl) ==
  LET kept == SelectSeq(tbl, regexp_like)
  IN IF kept = <<>> THEN None ELSE kept[1]

\* SELECT ... WHERE REGEXP_LIKE ... ORDER BY key DESC LIMIT 1 over the
\* column values tbl (in row order); rows[0]["CODE"] if rows else None.
get_max_code(tbl) ==
  LET kept == SelectSeq(tbl, regexp_like)
  IN IF kept = <<>> THEN None
     ELSE CHOOSE v \in Range(kept) : \A w \in Range(kept) : BigLeq(order_key(w), order_key(v))

\* "AAAA0000" if not last else self._increment_code(last)
next_code(tbl) ==
  LET last == get_max_code(tbl)
  IN IF last = None \/ last = <<>> THEN Returned(<<"A", "A", "A", "A", "0", "0", "0", "0">>)
     ELSE increment_code(last)

\* ------------------------------------------------------------------------
\* Specification of the allocator on one series, callers one at a time
\* ------------------------------------------------------------------------

\* Largest number of rows of the series, and of next_code calls in a row.
MaxRows == 3

MaxCalls == 2

\* Column values a series may hold when the program starts: codes, and
\* legacy values that do not match the format.
StoredValues ==
  { <<"A", "A", "A", "A", "0", "0", "0", "0">>,
    <<"A", "A", "A", "A", "0", "0", "0", "1">>,
    <<"A", "A", "A", "A", "0", "0", "0", "5">>,
    <<"A", "A", "A", "B", "0", "0", "0", "0">>,
    <<"A", "A", "A", "A", "9", "9", "9", "9">>,
    <<"Z", "Z", "Z", "Z", "9", "9", "9", "9">>,
    <<"L", "E", "G", "A", "C", "Y", "1">>,
    <<"a", "a", "a", "a", "0", "0", "0", "7">>,
    <<"A", "A", "A", "A", "0", "0", "0">> }

Tables(n) == UNION {[1..k -> StoredValues] : k \in 0..n}

AllocInit ==
  /\ al_tbl \in Tables(MaxRows)
  /\ al_ret = NotCalled
  /\ al_calls = 0
  /\ seq_in = <<>>
  /\ seq_out = NotCalled
  /\ DbIdle

\* NextCodeCall reserving the candidate by inserting it.
NextCodeCallReserving ==
  /\ al_calls < MaxCalls
  /\ al_ret' = next_code(al_tbl)
  /\ al_calls' = al_calls + 1
  /\ al_tbl' = IF al_ret'.ok THEN Append(al_tbl, al_ret'.val) ELSE al_tbl
  /\ UNCHANGED <<seqVars, dbVars, uiVars>>

\* A call of next_code: one SELECT, nothing written.
NextCodeCall ==
  /\ al_calls < MaxCalls
  /\ al_ret' = next_code(al_tbl)
  /\ al_calls' = al_calls + 1
  /\ UNCHANGED <<al_tbl, seqVars, dbVars, uiVars>>

\* A create operation run alone (insert_osd): next_code, then the INSERT of
\* a row holding the code; an exception of next_code leaves the INSERT out.
CreateRow ==
  /\ Len(al_tbl) < MaxRows + 1
  /\ LET code == next_code(al_tbl)
     IN al_tbl' = IF code.ok THEN Append(al_tbl, code.val) ELSE al_tbl
  /\ al_ret' = NotCalled
  /\ al_calls' = 0
  /\ UNCHANGED <<seqVars, dbVars, uiVars>>

AllocNext == NextCodeCall \/ CreateRow

SpecAlloc == AllocInit /\ [][AllocNext]_vars


\* ------------------------------------------------------------------------
\* DatabaseManager: the create operations of concurrent sessions.  Every
\* session.sql(...).collect() is one step; what Python computes between two
\* statements belongs to the step of the statement before it.
\* ------------------------------------------------------------------------

\* Largest number of rows of each table, and of entries of a SID list.
MaxStops == 2

MaxShipments == 1

MaxSids == 1

MaxOsds == 1

MaxSidList == 1

\* Deletes let the codes of a series grow without end: no code beyond
\* AAAA0000 + CodeCap is handed out.
CodeCap == 1

WithinCap(r) ==
  r.ok => /\ SubSeq(r.val, 1, 4) = <<"A", "A", "A", "A">>
          /\ IntValue(SubSeq(r.val, 5, Len(r.val))) <= CodeCap

\* The manifest the stops are added to.
ManifestNos == {<<"M", "1">>}

\* What the SID editor's text inputs may hold.
SidNumberInputs == {<<" ">>, <<"7">>, <<" ", "7", " ">>, <<"8">>}

SidLists == UNION {[1..k -> SidNumberInputs] : k \in 1..MaxSidList}

Column(tbl, col) == [i \in 1..Len(tbl) |-> tbl[i][col]]

next_drop_no == next_code(Column(stops, "DROP_NO"))

\* A variant of next_order_id that counts in the series of the stops.
next_order_id_shared == next_code(Column(stops, "DROP_NO"))

next_order_id == next_code(Column(shipments, "ORDER_ID"))

next_sid_id == next_code(Column(sids, "SID_ID"))

next_osd_index == next_code(Column(osds, "OSD_INDEX"))

stop_exists(drop_no) == \E i \in 1..Len(stops) : stops[i].DROP_NO = drop_no

\* str.strip(), the blank being the only whitespace of the inputs
RECURSIVE strip(_)
strip(str) ==
  IF str = <<>> THEN str
  ELSE IF Head(str) = " " THEN strip(Tail(str))
  ELSE IF str[Len(str)] = " " THEN strip(SubSeq(str, 1, Len(str) - 1))
  ELSE str

\* [s.strip() for s in sid_numbers if s and s.strip()]
RECURSIVE clean_sids(_)
clean_sids(sid_numbers) ==
  IF sid_numbers = <<>> THEN <<>>
  ELSE LET x == Head(sid_numbers)
       IN (IF x # <<>> /\ strip(x) # <<>> THEN <<strip(x)>> ELSE <<>>)
            \o clean_sids(Tail(sid_numbers))

\* Rows the operations in flight at the statements `labels` may still add.
RECURSIVE RoomTaken(_, _)
RoomTaken(S, labels) ==
  IF S = {} THEN 0
  ELSE LET s == CHOOSE x \in S : TRUE
       IN (IF pc[s] \in labels THEN loc[s].room ELSE 0) + RoomTaken(S \ {s}, labels)

Goto(s, label, locals) ==
  /\ pc' = [pc EXCEPT ![s] = label]
  /\ loc' = [loc EXCEPT ![s] = locals]

\* The operation of session s returns.
Finish(s) == Goto(s, "idle", NoLocals)

\* The operation of session s ends with exception e, which propagates to the
\* caller.
Raise(s, e) == Goto(s, "raised", [NoLocals EXCEPT !.code = e])

\* A variant of the first statement of insert_stop that holds a lock on the
\* series from the max-code read to the insert: it waits while another
\* session is between the two.
insert_stop_next_locked(s) ==
  /\ pc[s] = "idle"
  /\ \A t \in Sessions \ {s} : pc[t] \notin {"stop_exists", "stop_retry", "stop_insert"}
  /\ Len(stops) + RoomTaken(Sessions, {"stop_exists", "stop_retry", "stop_insert"}) < MaxStops
  /\ \E manifest_no \in ManifestNos :
       LET drop_no == next_drop_no
       IN /\ WithinCap(drop_no)
          /\ IF drop_no.ok
             THEN Goto(s, "stop_exists",
                       [NoLocals EXCEPT !.arg = manifest_no, !.code = drop_no.val, !.room = 1,
                                        !.calls = 1])
             ELSE Raise(s, drop_no.val)
  /\ UNCHANGED <<tables, seqVars, allocVars, collided, uiVars>>

\* insert_stop, line 98: drop_no = self.next_drop_no()
insert_stop_next(s) ==
  /\ pc[s] = "idle"
  /\ Len(stops) + RoomTaken(Sessions, {"stop_exists", "stop_retry", "stop_insert"}) < MaxStops
  /\ \E manifest_no \in ManifestNos :
       LET drop_no == next_drop_no
       IN /\ WithinCap(drop_no)
          /\ IF drop_no.ok
             THEN Goto(s, "stop_exists",
                       [NoLocals EXCEPT !.arg = manifest_no, !.code = drop_no.val, !.room = 1,
                                        !.calls = 1])
             ELSE Raise(s, drop_no.val)
  /\ UNCHANGED <<tables, seqVars, allocVars, collided, uiVars>>

\* insert_stop, line 101: if self.stop_exists(drop_no)
insert_stop_exists(s) ==
  /\ pc[s] = "stop_exists"
  /\ Goto(s, IF stop_exists(loc[s].code) THEN "stop_retry" ELSE "stop_insert", loc[s])
  /\ collided' = (collided \/ stop_exists(loc[s].code))
  /\ UNCHANGED <<tables, seqVars, allocVars, uiVars>>

\* A variant of the retry that checks the second candidate too, as a loop
\* `while self.stop_exists(drop_no)` would.
insert_stop_retry_rechecking(s) ==
  /\ pc[s] = "stop_retry"
  /\ LET drop_no == next_drop_no
     IN /\ WithinCap(drop_no)
        /\ IF drop_no.ok
           THEN Goto(s, "stop_exists", [loc[s] EXCEPT !.code = drop_no.val, !.calls = @ + 1])
           ELSE Raise(s, drop_no.val)
  /\ UNCHANGED <<tables, seqVars, allocVars, collided, uiVars>>

\* insert_stop, line 102: drop_no = self.next_drop_no()
insert_stop_retry(s) ==
  /\ pc[s] = "stop_retry"
  /\ LET drop_no == next_drop_no
     IN /\ WithinCap(drop_no)
        /\ IF drop_no.ok
           THEN Goto(s, "stop_insert", [loc[s] EXCEPT !.code = drop_no.val, !.calls = @ + 1])
           ELSE Raise(s, drop_no.val)
  /\ UNCHANGED <<tables, seqVars, allocVars, collided, uiVars>>

\* insert_stop, lines 104-113: the INSERT, and the return
insert_stop_insert(s) ==
  /\ pc[s] = "stop_insert"
  /\ stops' = Append(stops, [MANIFEST_NO |-> loc[s].arg, DROP_NO |-> loc[s].code])
  /\ Finish(s)
  /\ UNCHANGED <<shipments, sids, osds, seqVars, allocVars, collided, uiVars>>

\* insert_shipment, line 152: order_id = self.next_order_id(), for a stop
\* the caller selected among the stops there are
insert_shipment_next(s) ==
  /\ pc[s] = "idle"
  /\ Len(shipments) + RoomTaken(Sessions, {"ship_insert"}) < MaxShipments
  /\ \E i \in 1..Len(stops) :
       LET order_id == next_order_id
       IN /\ WithinCap(order_id)
          /\ IF order_id.ok
             THEN Goto(s, "ship_insert",
                       [NoLocals EXCEPT !.arg = stops[i].DROP_NO, !.code = order_id.val, !.room = 1,
                                        !.calls = 1])
             ELSE Raise(s, order_id.val)
  /\ UNCHANGED <<tables, seqVars, allocVars, collided, uiVars>>

\* insert_shipment, lines 154-169: the INSERT, and the return
insert_shipment_insert(s) ==
  /\ pc[s] = "ship_insert"
  /\ shipments' = Append(shipments,
                         [ORDER_ID |-> loc[s].code, DROP_NO |-> loc[s].arg, SID |-> None])
  /\ Finish(s)
  /\ UNCHANGED <<stops, sids, osds, seqVars, allocVars, collided, uiVars>>

\* add_multiple_sids, lines 216-225: the cleaned list, the SELECT of the
\* order's SID numbers, and the entries that are new
add_multiple_sids_existing(s) ==
  /\ pc[s] = "idle"
  /\ \E i \in 1..Len(shipments), sid_numbers \in SidLists :
       LET order_id == shipments[i].ORDER_ID
           clean == clean_sids(sid_numbers)
           existing == {sids[j].SID_NUMBER :
                          j \in {k \in 1..Len(sids) : sids[k].ORDER_ID = order_id}}
           new_sids == SelectSeq(clean, LAMBDA x : x \notin existing)
       IN /\ Len(sids) + RoomTaken(Sessions, {"sid_next", "sid_insert"}) + Len(new_sids)
               <= MaxSids
          /\ IF clean = <<>> \/ new_sids = <<>>
             THEN Finish(s)
             ELSE Goto(s, "sid_next",
                       [NoLocals EXCEPT !.arg = order_id, !.todo = new_sids,
                                        !.room = Len(new_sids)])
  /\ UNCHANGED <<tables, seqVars, allocVars, collided, uiVars>>

\* add_multiple_sids, line 229: sid_id = self.next_sid_id()
add_multiple_sids_next(s) ==
  /\ pc[s] = "sid_next"
  /\ LET sid_id == next_sid_id
     IN /\ WithinCap(sid_id)
        /\ IF sid_id.ok
           THEN Goto(s, "sid_insert", [loc[s] EXCEPT !.code = sid_id.val, !.calls = @ + 1])
           ELSE Raise(s, sid_id.val)
  /\ UNCHANGED <<tables, seqVars, allocVars, collided, uiVars>>

\* add_multiple_sids, lines 230-233: the INSERT, then the next entry or the
\* return
add_multiple_sids_insert(s) ==
  /\ pc[s] = "sid_insert"
  /\ sids' = Append(sids, [SID_ID |-> loc[s].code, ORDER_ID |-> loc[s].arg,
                           SID_NUMBER |-> Head(loc[s].todo)])
  /\ IF Tail(loc[s].todo) = <<>>
     THEN Finish(s)
     ELSE Goto(s, "sid_next", [loc[s] EXCEPT !.code = None, !.todo = Tail(@),
                                             !.room = @ - 1])
  /\ UNCHANGED <<stops, shipments, osds, seqVars, allocVars, collided, uiVars>>

\* insert_osd, line 270: osd_index = self.next_osd_index(), for an order the
\* caller selected among the shipments there are
insert_osd_next(s) ==
  /\ pc[s] = "idle"
  /\ Len(osds) + RoomTaken(Sessions, {"osd_insert"}) < MaxOsds
  /\ \E i \in 1..Len(shipments) :
       LET osd_index == next_osd_index
       IN /\ WithinCap(osd_index)
          /\ IF osd_index.ok
             THEN Goto(s, "osd_insert",
                       [NoLocals EXCEPT !.arg = shipments[i].ORDER_ID, !.code = osd_index.val,
                                        !.room = 1, !.calls = 1])
             ELSE Raise(s, osd_index.val)
  /\ UNCHANGED <<tables, seqVars, allocVars, collided, uiVars>>

\* insert_osd, lines 272-282: the INSERT, and the return
insert_osd_insert(s) ==
  /\ pc[s] = "osd_insert"
  /\ osds' = Append(osds, [OSD_INDEX |-> loc[s].code, ORDER_ID |-> loc[s].arg])
  /\ Finish(s)
  /\ UNCHANGED <<stops, shipments, sids, seqVars, allocVars, collided, uiVars>>

\* The ORDER_IDs of the shipments of a stop: the subquery of delete_stop.
orders_of_stop(drop_no) ==
  {shipments[i].ORDER_ID : i \in {k \in 1..Len(shipments) : shipments[k].DROP_NO = drop_no}}

\* DELETE FROM tbl WHERE col IN keys
delete_where(tbl, col, keys) == SelectSeq(tbl, LAMBDA r : r[col] \notin keys)

\* delete_stop, lines 128-131: the DELETE of the SIDs of the stop's
\* shipments, for a stop the caller selected among the stops there are
delete_stop_sids(s) ==
  /\ pc[s] = "idle"
  /\ \E i \in 1..Len(stops) :
       /\ sids' = delete_where(sids, "ORDER_ID", orders_of_stop(stops[i].DROP_NO))
       /\ Goto(s, "dstop_osds", [NoLocals EXCEPT !.arg = stops[i].DROP_NO])
  /\ UNCHANGED <<stops, shipments, osds, seqVars, allocVars, collided, uiVars>>

\* A variant of the second statement of delete_stop that removes the stop's
\* shipments while their OSD rows are still there.
delete_stop_osds_parent_first(s) ==
  /\ pc[s] = "dstop_osds"
  /\ shipments' = delete_where(shipments, "DROP_NO", {loc[s].arg})
  /\ Goto(s, "dstop_shipments", loc[s])
  /\ UNCHANGED <<stops, sids, osds, seqVars, allocVars, collided, uiVars>>

\* delete_stop, lines 134-137: the DELETE of the OSDs of the stop's shipments
delete_stop_osds(s) ==
  /\ pc[s] = "dstop_osds"
  /\ osds' = delete_where(osds, "ORDER_ID", orders_of_stop(loc[s].arg))
  /\ Goto(s, "dstop_shipments", loc[s])
  /\ UNCHANGED <<stops, shipments, sids, seqVars, allocVars, collided, uiVars>>

\* delete_stop, line 140: the DELETE of the stop's shipments
delete_stop_shipments(s) ==
  /\ pc[s] = "dstop_shipments"
  /\ shipments' = delete_where(shipments, "DROP_NO", {loc[s].arg})
  /\ Goto(s, "dstop_stop", loc[s])
  /\ UNCHANGED <<stops, sids, osds, seqVars, allocVars, collided, uiVars>>

\* delete_stop, line 143: the DELETE of the stop, and the return
delete_stop_stop(s) ==
  /\ pc[s] = "dstop_stop"
  /\ stops' = delete_where(stops, "DROP_NO", {loc[s].arg})
  /\ Finish(s)
  /\ UNCHANGED <<shipments, sids, osds, seqVars, allocVars, collided, uiVars>>

\* delete_shipment, line 197: the DELETE of the shipment's SIDs, for a
\* shipment the caller selected among the shipments there are
delete_shipment_sids(s) ==
  /\ pc[s] = "idle"
  /\ \E i \in 1..Len(shipments) :
       /\ sids' = delete_where(sids, "ORDER_ID", {shipments[i].ORDER_ID})
       /\ Goto(s, "dship_osds", [NoLocals EXCEPT !.arg = shipments[i].ORDER_ID])
  /\ UNCHANGED <<stops, shipments, osds, seqVars, allocVars, collided, uiVars>>

\* delete_shipment, line 198: the DELETE of the shipment's OSDs
delete_shipment_osds(s) ==
  /\ pc[s] = "dship_osds"
  /\ osds' = delete_where(osds, "ORDER_ID", {loc[s].arg})
  /\ Goto(s, "dship_shipment", loc[s])
  /\ UNCHANGED <<stops, shipments, sids, seqVars, allocVars, collided, uiVars>>

\* delete_shipment, line 199: the DELETE of the shipment, and the return
delete_shipment_shipment(s) ==
  /\ pc[s] = "dship_shipment"
  /\ shipments' = delete_where(shipments, "ORDER_ID", {loc[s].arg})
  /\ Finish(s)
  /\ UNCHANGED <<stops, sids, osds, seqVars, allocVars, collided, uiVars>>

\* delete_sid, for a SID row the caller selected among the rows there are
delete_sid(s) ==
  /\ pc[s] = "idle"
  /\ \E i \in 1..Len(sids) : sids' = delete_where(sids, "SID_ID", {sids[i].SID_ID})
  /\ Finish(s)
  /\ UNCHANGED <<stops, shipments, osds, seqVars, allocVars, collided, uiVars>>

\* delete_osd, for an OSD row the caller selected among the rows there are
delete_osd(s) ==
  /\ pc[s] = "idle"
  /\ \E i \in 1..Len(osds) : osds' = delete_where(osds, "OSD_INDEX", {osds[i].OSD_INDEX})
  /\ Finish(s)
  /\ UNCHANGED <<stops, shipments, sids, seqVars, allocVars, collided, uiVars>>

\* A variant of the UPDATE that writes the value into the key column as well.
update_sid_rekeying(order_id, value) ==
  [i \in 1..Len(shipments) |->
     IF shipments[i].ORDER_ID = order_id
     THEN [shipments[i] EXCEPT !.SID = value, !.ORDER_ID = value]
     ELSE shipments[i]]

\* UPDATE SHIPMENT_DETAIL SET SID = value WHERE ORDER_ID = order_id
update_sid(order_id, value) ==
  [i \in 1..Len(shipments) |->
     IF shipments[i].ORDER_ID = order_id THEN [shipments[i] EXCEPT !.SID = value]
     ELSE shipments[i]]

\* set_primary_sid, for a shipment there is, with None, a blank, or one of the
\* shipment's SID numbers as the caller's choice
set_primary_sid(s) ==
  /\ pc[s] = "idle"
  /\ \E i \in 1..Len(shipments) :
       \E sid_number \in {None, <<" ">>}
            \cup {sids[j].SID_NUMBER :
                    j \in {k \in 1..Len(sids) : sids[k].ORDER_ID = shipments[i].ORDER_ID}} :
         shipments' = update_sid(shipments[i].ORDER_ID,
                                 IF sid_number = None \/ strip(sid_number) = <<>>
                                 THEN None ELSE sid_number)
  /\ Finish(s)
  /\ UNCHANGED <<stops, sids, osds, seqVars, allocVars, collided, uiVars>>

\* A variant in which the failure of the SELECT is swallowed and taken for an
\* empty series: the create operation goes on to its INSERT with MinCode.
max_code_query_fails_swallowed(s) ==
  /\ pc[s] = "idle"
  /\ Len(stops) + RoomTaken(Sessions, {"stop_exists", "stop_retry", "stop_insert"}) < MaxStops
  /\ Goto(s, "stop_insert", [NoLocals EXCEPT !.arg = <<"M", "1">>, !.code = MinCode,
                                             !.room = 1])
  /\ UNCHANGED <<tables, seqVars, allocVars, collided, uiVars>>

\* The SELECT of _get_max_code fails (the store is unavailable): collect()
\* raises, in next_drop_no of insert_stop (first call or retry), in
\* next_order_id, in next_osd_index or in next_sid_id.
max_code_query_fails(s) ==
  /\ \/ pc[s] = "idle"
     \/ pc[s] = "stop_retry"
     \/ pc[s] = "sid_next"
  /\ Raise(s, <<"StoreUnavailable">>)
  /\ UNCHANGED <<tables, seqVars, allocVars, collided, uiVars>>

\* The caller's `except Exception` clause: the error is logged and shown.
error_handled(s) ==
  /\ pc[s] = "raised"
  /\ Finish(s)
  /\ UNCHANGED <<tables, seqVars, allocVars, collided, uiVars>>

Init ==
  /\ DbIdle
  /\ seq_in = <<>>
  /\ seq_out = NotCalled
  /\ al_tbl = <<>>
  /\ al_ret = NotCalled
  /\ al_calls = 0

Next ==
  \E s \in Sessions :
    \/ insert_stop_next(s)
    \/ insert_stop_exists(s)
    \/ insert_stop_retry(s)
    \/ insert_stop_insert(s)
    \/ insert_shipment_next(s)
    \/ insert_shipment_insert(s)
    \/ add_multiple_sids_existing(s)
    \/ add_multiple_sids_next(s)
    \/ add_multiple_sids_insert(s)
    \/ insert_osd_next(s)
    \/ insert_osd_insert(s)
    \/ delete_stop_sids(s)
    \/ delete_stop_osds(s)
    \/ delete_stop_shipments(s)
    \/ delete_stop_stop(s)
    \/ delete_shipment_sids(s)
    \/ delete_shipment_osds(s)
    \/ delete_shipment_shipment(s)
    \/ delete_sid(s)
    \/ delete_osd(s)
    \/ set_primary_sid(s)
    \/ max_code_query_fails(s)
    \/ error_handled(s)

Spec == Init /\ [][Next]_vars

\* ------------------------------------------------------------------------
\* Properties of the sequencer (checked under SpecSeq)
\* ------------------------------------------------------------------------

SeqCalled == seq_out # NotCalled

\* C3: for a well-formed code whose digit suffix is below 9999,
\* _increment_code returns the same four letters followed by the suffix plus
\* one, zero-padded to exactly four digits.
C3_IncrementBelowCarry ==
  (SeqCalled /\ WellFormed(seq_in) /\ SuffixValue(seq_in) < 9999)
    => /\ seq_out.ok
       /\ WellFormed(seq_out.val)
       /\ Prefix(seq_out.val) = Prefix(seq_in)
       /\ SuffixValue(seq_out.val) = SuffixValue(seq_in) + 1

C3_Witness ==
  /\ seq_in = <<"A", "A", "A", "A", "0", "0", "9", "9">>
  /\ seq_out = Returned(<<"A", "A", "A", "A", "0", "1", "0", "0">>)

\* C4: for a well-formed code with suffix 9999 and a prefix other than ZZZZ,
\* _increment_code returns the prefix incremented as a base-26 counter
\* (trailing Z letters become A, the first non-Z letter from the right
\* advances by one, the letters to its left are unchanged) followed by 0000.
C4_CarryIncrementsPrefix ==
  (SeqCalled /\ WellFormed(seq_in) /\ SuffixValue(seq_in) = 9999
     /\ Prefix(seq_in) # Prefix(LastCode))
    => /\ seq_out.ok
       /\ Len(seq_out.val) = 8
       /\ Suffix(seq_out.val) = <<"0", "0", "0", "0">>
       /\ \E k \in 1..4 :
            /\ seq_in[k] # "Z"
            /\ seq_out.val[k] = Alphabet[LetterIndex(seq_in[k]) + 2]
            /\ \A j \in (k + 1)..4 : seq_in[j] = "Z" /\ seq_out.val[j] = "A"
            /\ \A j \in 1..(k - 1) : seq_out.val[j] = seq_in[j]

C4_Witness ==
  /\ seq_in = <<"A", "A", "A", "Z", "9", "9", "9", "9">>
  /\ seq_out = Returned(<<"A", "A", "B", "A", "0", "0", "0", "0">>)

\* C6 (as claimed): for every well-formed code c, _increment_code(c) is a
\* code strictly greater than c under the composite order.
C6_StrictlyGreater ==
  (SeqCalled /\ WellFormed(seq_in))
    => /\ seq_out.ok
       /\ WellFormed(seq_out.val)
       /\ BigLess(CompositeValue(seq_in), CompositeValue(seq_out.val))

\* C7: for every well-formed code that has a successor (every code but
\* ZZZZ9999), the composite value of _increment_code(c) is exactly the
\* composite value of c plus one.
C7_NoGaps ==
  (SeqCalled /\ WellFormed(seq_in) /\ seq_in # LastCode)
    => /\ seq_out.ok
       /\ WellFormed(seq_out.val)
       /\ CompositeValue(seq_out.val) = BigSucc(CompositeValue(seq_in))

C7_Witness ==
  /\ seq_in = <<"A", "Z", "Z", "Z", "9", "9", "9", "9">>
  /\ seq_out = Returned(<<"B", "A", "A", "A", "0", "0", "0", "0">>)

\* C8 (as claimed): an input that is not a well-formed code is rejected;
\* no code is returned for it.
C8_MalformedRejected ==
  (SeqCalled /\ ~WellFormed(seq_in)) => ~seq_out.ok

\* ------------------------------------------------------------------------
\* Properties of the allocator (checked under SpecAlloc)
\* ------------------------------------------------------------------------

Conforming(tbl) == {v \in Range(tbl) : WellFormed(v)}

\* C2: when the series holds no conforming code (an empty table, or only
\* non-conforming values), next_code returns AAAA0000.
C2_EmptySeriesGivesMinCode ==
  (al_calls >= 1 /\ Conforming(al_tbl) = {}) => al_ret = Returned(MinCode)

C2_Witness ==
  /\ al_calls >= 1
  /\ al_tbl # <<>>
  /\ Conforming(al_tbl) = {}
  /\ al_ret = Returned(MinCode)

\* C5 (as claimed): next_code on a series whose maximum conforming code is
\* ZZZZ9999 fails and returns no code.
C5_ExhaustedSeriesFails ==
  (al_calls >= 1 /\ LastCode \in Conforming(al_tbl)) => ~al_ret.ok

\* C9: next_code never fails, and when the series holds conforming codes
\* whose maximum has a successor it returns the successor, under the
\* composite order, of the maximum of the conforming codes, whatever the row
\* order and whatever non-conforming values the series holds.
C9_SuccessorOfMaxConforming ==
  al_calls >= 1 =>
    /\ al_ret.ok
    /\ (Conforming(al_tbl) # {} /\ LastCode \notin Conforming(al_tbl)) =>
         /\ WellFormed(al_ret.val)
         /\ \E m \in Conforming(al_tbl) :
              /\ \A w \in Conforming(al_tbl) :
                   BigLeq(CompositeValue(w), CompositeValue(m))
              /\ CompositeValue(al_ret.val) = BigSucc(CompositeValue(m))

C9_Witness ==
  /\ al_calls >= 1
  /\ al_tbl = <<<<"A", "A", "A", "A", "0", "0", "0", "5">>, <<"L", "E", "G", "A", "C", "Y", "1">>, <<"A", "A", "A", "A", "0", "0", "0", "1">>>>
  /\ al_ret = Returned(<<"A", "A", "A", "A", "0", "0", "0", "6">>)

\* C10: a next_code call leaves the store unchanged, and a call that follows
\* another with no insert in between returns the same candidate.
C10_NextCodeOnlyComputes ==
  [][al_calls' = al_calls + 1 =>
       /\ al_tbl' = al_tbl
       /\ (al_calls >= 1 => al_ret' = al_ret)]_vars

C10_Witness ==
  /\ al_calls = 2
  /\ al_tbl # <<>>
  /\ al_ret.ok


\* The series contents of the length of tbl that hold the same set of codes.
SameCodes(tbl) == {t \in [1..Len(tbl) -> Range(tbl)] : Range(t) = Range(tbl)}

\* C18: the result of next_code is a function of the set of codes the series
\* holds: after any number of earlier calls, a call returns what next_code
\* gives on every content with the same set of codes, whatever the row order.
C18_ResultDependsOnCodesOnly ==
  al_calls >= 1 => \A t \in SameCodes(al_tbl) : next_code(t) = al_ret

C18_Witness ==
  /\ al_calls = 2
  /\ Len(al_tbl) = 3
  /\ al_tbl[1] # al_tbl[2]
  /\ Cardinality(SameCodes(al_tbl)) > 1

Distinct(tbl) == \A i, j \in 1..Len(tbl) : tbl[i] = tbl[j] => i = j

\* C20 (as claimed): with the operations run one at a time, a create on a
\* series whose codes are pairwise distinct leaves them pairwise distinct
\* (the code next_code returns is not in the series at that moment).
C20_SerialCreatesKeepCodesDistinct ==
  [][Distinct(al_tbl) => Distinct(al_tbl')]_vars

\* ------------------------------------------------------------------------
\* Properties of the create operations (checked under Spec)
\* ------------------------------------------------------------------------

AllFinished == \A s \in Sessions : pc[s] = "idle"

NoCodeTwice(tbl, col) ==
  \A i, j \in 1..Len(tbl) : tbl[i][col] = tbl[j][col] => i = j

\* C1 (as claimed): for any interleaving of create operations of concurrent
\* sessions, once all operations have finished no code appears in more than
\* one row of its series' code column.
C1_NoCodeTwiceInASeries ==
  AllFinished =>
    /\ NoCodeTwice(stops, "DROP_NO")
    /\ NoCodeTwice(shipments, "ORDER_ID")
    /\ NoCodeTwice(sids, "SID_ID")
    /\ NoCodeTwice(osds, "OSD_INDEX")

\* The positions of insert_stop.
StopLabels == {"stop_exists", "stop_retry", "stop_insert"}

\* Session s takes a step.
Steps(s) == pc'[s] # pc[s] \/ loc'[s] # loc[s]

\* C11: insert_stop allocates with one retry. It calls next_drop_no and checks
\* that candidate with stop_exists once; when the candidate is taken it calls
\* next_drop_no once more and inserts that second result without a further
\* check, otherwise it inserts the first candidate; it never allocates more
\* than twice.
C11_AllocateWithRetry ==
  [][\A s \in Sessions :
       Steps(s) =>
         /\ pc'[s] = "stop_exists" =>
              /\ pc[s] = "idle"
              /\ loc'[s].calls = 1
              /\ next_drop_no = Returned(loc'[s].code)
              /\ tables' = tables
         /\ pc[s] = "stop_exists" =>
              /\ pc'[s] = (IF stop_exists(loc[s].code) THEN "stop_retry" ELSE "stop_insert")
              /\ loc'[s] = loc[s]
              /\ tables' = tables
         /\ pc[s] = "stop_retry" =>
              /\ loc[s].calls = 1
              /\ \/ /\ pc'[s] = "stop_insert"
                    /\ loc'[s].calls = 2
                    /\ next_drop_no = Returned(loc'[s].code)
                 \/ pc'[s] = "raised"
              /\ tables' = tables
         /\ pc[s] = "stop_insert" =>
              /\ loc[s].calls \in {1, 2}
              /\ pc'[s] = "idle"
              /\ stops' = Append(stops, [MANIFEST_NO |-> loc[s].arg, DROP_NO |-> loc[s].code])
         /\ pc'[s] = "stop_insert" => pc[s] \in {"stop_exists", "stop_retry"}
         /\ pc'[s] = "stop_retry" => pc[s] = "stop_exists"]_vars

\* An insert_stop whose first candidate was taken is about to insert its
\* second candidate.
C11_Witness ==
  \E s \in Sessions :
    /\ pc[s] = "stop_insert"
    /\ loc[s].calls = 2
    /\ stop_exists(MinCode)
    /\ loc[s].code # MinCode

\* Session s holds a candidate DROP_NO that it has read and not yet inserted,
\* and the stops have not changed since: the candidate is still the next code.
HoldsCandidate(s) ==
  /\ pc[s] \in {"stop_exists", "stop_insert"}
  /\ loc[s].calls = 1
  /\ next_drop_no = Returned(loc[s].code)

\* C12: the max-code read and the INSERT are separate, unsynchronised
\* statements: while one session holds a candidate it has not inserted yet,
\* another session can run its own max-code read, and that read gives it the
\* same candidate.
C12_SecondReadGivesSameCandidate ==
  \A s, t \in Sessions :
    (/\ s # t
     /\ HoldsCandidate(s)
     /\ pc[t] = "idle"
     /\ Len(stops) + RoomTaken(Sessions, StopLabels) < MaxStops)
      => ENABLED (insert_stop_next(t) /\ loc'[t].code = loc[s].code)

\* Two sessions are inside insert_stop with the same first candidate.
C12_Witness ==
  \E s, t \in Sessions :
    /\ s # t
    /\ pc[s] \in {"stop_exists", "stop_insert"} /\ loc[s].calls = 1
    /\ pc[t] \in {"stop_exists", "stop_insert"} /\ loc[t].calls = 1
    /\ loc[s].code = loc[t].code

\* C13 (as claimed): in every execution in which no stop_exists check has
\* reported a collision, the DROP_NOs persisted by the insert_stop calls
\* differ.
C13_DuplicateOnlyAfterCollision ==
  ~collided => NoCodeTwice(stops, "DROP_NO")

\* The codes of column col that the rows of tbl carry.
Carried(tbl, col) == {tbl[i][col] : i \in 1..Len(tbl)}

\* Session s has got a code from the allocator in this step.
Allocates(s) == loc'[s].calls = loc[s].calls + 1

\* C14 (as claimed): for every sequence and interleaving of creates and
\* deletes, an allocation never hands out a DROP_NO that a shipment row
\* carries, nor an ORDER_ID that a SID row or an OSD row carries.
C14_NoReuseWhileReferenced ==
  [][\A s \in Sessions :
       Allocates(s) =>
         /\ pc'[s] \in StopLabels => loc'[s].code \notin Carried(shipments, "DROP_NO")
         /\ pc'[s] = "ship_insert" =>
              loc'[s].code \notin Carried(sids, "ORDER_ID") \cup Carried(osds, "ORDER_ID")]_vars

\* C15: the four series never share a counter. A code handed out in a series
\* is the next code of that series' own table and column, and after a step
\* that leaves a series' table alone the series gives the next code it gave
\* before, whatever rows the step creates or deletes in the other series.
C15_SeriesDoNotShareCounters ==
  [][/\ \A s \in Sessions :
          Allocates(s) =>
            /\ pc'[s] \in StopLabels =>
                 loc'[s].code = next_code(Column(stops, "DROP_NO")).val
            /\ pc'[s] = "ship_insert" =>
                 loc'[s].code = next_code(Column(shipments, "ORDER_ID")).val
            /\ pc'[s] = "sid_insert" =>
                 loc'[s].code = next_code(Column(sids, "SID_ID")).val
            /\ pc'[s] = "osd_insert" =>
                 loc'[s].code = next_code(Column(osds, "OSD_INDEX")).val
     /\ stops' = stops => next_code(Column(stops', "DROP_NO")) = next_drop_no
     /\ shipments' = shipments => next_code(Column(shipments', "ORDER_ID")) = next_order_id
     /\ sids' = sids => next_code(Column(sids', "SID_ID")) = next_sid_id
     /\ osds' = osds => next_code(Column(osds', "OSD_INDEX")) = next_osd_index]_vars

\* The series stand at different codes: a shipment allocation is about to
\* insert the first ORDER_ID while the stops are past their first DROP_NO and
\* there is no SID row.
C15_Witness ==
  \E s \in Sessions :
    /\ pc[s] = "ship_insert"
    /\ loc[s].code = MinCode
    /\ next_drop_no.val # MinCode
    /\ next_sid_id.val = MinCode

\* The rows of tbl whose column col is not in keys are what is left of it,
\* and the other three tables are as they were.
OnlyDeletes(tbl, tblNext, col, keys, others) ==
  /\ tblNext = SelectSeq(tbl, LAMBDA r : r[col] \notin keys)
  /\ others

\* C16: deletes cascade in a fixed order. delete_stop removes the SID rows of
\* the stop's shipments, then their OSD rows, then the shipments, then the
\* stop row; delete_shipment removes the shipment's SID rows, then its OSD
\* rows, then the shipment row. Each statement removes rows of one table only
\* and the parent's row goes last.
C16_DeletesCascadeInOrder ==
  [][\A s \in Sessions :
       Steps(s) =>
         /\ pc'[s] = "dstop_osds" =>
              /\ pc[s] = "idle"
              /\ stop_exists(loc'[s].arg)
              /\ OnlyDeletes(sids, sids', "ORDER_ID", orders_of_stop(loc'[s].arg),
                             UNCHANGED <<stops, shipments, osds>>)
         /\ pc'[s] = "dstop_shipments" =>
              /\ pc[s] = "dstop_osds"
              /\ loc'[s] = loc[s]
              /\ OnlyDeletes(osds, osds', "ORDER_ID", orders_of_stop(loc[s].arg),
                             UNCHANGED <<stops, shipments, sids>>)
         /\ pc'[s] = "dstop_stop" =>
              /\ pc[s] = "dstop_shipments"
              /\ loc'[s] = loc[s]
              /\ OnlyDeletes(shipments, shipments', "DROP_NO", {loc[s].arg},
                             UNCHANGED <<stops, sids, osds>>)
         /\ pc[s] = "dstop_stop" =>
              /\ pc'[s] = "idle"
              /\ OnlyDeletes(stops, stops', "DROP_NO", {loc[s].arg},
                             UNCHANGED <<shipments, sids, osds>>)
         /\ pc[s] = "dstop_osds" => pc'[s] = "dstop_shipments"
         /\ pc[s] = "dstop_shipments" => pc'[s] = "dstop_stop"
         /\ pc'[s] = "dship_osds" =>
              /\ pc[s] = "idle"
              /\ loc'[s].arg \in Carried(shipments, "ORDER_ID")
              /\ OnlyDeletes(sids, sids', "ORDER_ID", {loc'[s].arg},
                             UNCHANGED <<stops, shipments, osds>>)
         /\ pc'[s] = "dship_shipment" =>
              /\ pc[s] = "dship_osds"
              /\ loc'[s] = loc[s]
              /\ OnlyDeletes(osds, osds', "ORDER_ID", {loc[s].arg},
                             UNCHANGED <<stops, shipments, sids>>)
         /\ pc[s] = "dship_shipment" =>
              /\ pc'[s] = "idle"
              /\ OnlyDeletes(shipments, shipments', "ORDER_ID", {loc[s].arg},
                             UNCHANGED <<stops, sids, osds>>)
         /\ pc[s] = "dship_osds" => pc'[s] = "dship_shipment"]_vars

\* A delete_stop has run its first statement: the shipment of its stop, which
\* had a SID row (its primary SID was chosen from it), has no SID row left,
\* and its OSD row, its own row and the stop's row are still there.
C16_Witness ==
  \E s \in Sessions :
    /\ pc[s] = "dstop_osds"
    /\ stop_exists(loc[s].arg)
    /\ sids = <<>>
    /\ \E i \in 1..Len(shipments) :
         /\ shipments[i].DROP_NO = loc[s].arg
         /\ shipments[i].SID # None
         /\ shipments[i].ORDER_ID \in Carried(osds, "ORDER_ID")

\* The positions from which a create operation runs its INSERT.
InsertLabels == {"stop_insert", "ship_insert", "osd_insert"}

\* C17: a failure of the max-code query is propagated unchanged and is not
\* retried. The step in which the query of insert_stop, insert_shipment or
\* insert_osd fails ends the operation with that exception and leaves the
\* four tables as they were; the caller's handler then returns the session to
\* rest without a row being inserted; and an operation reaches its INSERT
\* only holding a code that a successful query produced.
C17_QueryFailurePropagates ==
  [][\A s \in Sessions :
       Steps(s) =>
         /\ (pc'[s] = "raised" /\ pc[s] \in {"idle", "stop_retry"}) =>
              /\ loc'[s] = [NoLocals EXCEPT !.code = <<"StoreUnavailable">>]
              /\ tables' = tables
         /\ pc[s] = "raised" =>
              /\ pc'[s] = "idle"
              /\ loc'[s] = NoLocals
              /\ tables' = tables
         /\ pc'[s] \in InsertLabels =>
              /\ loc'[s].calls >= 1
              /\ loc'[s].code # <<"StoreUnavailable">>
         /\ (pc[s] \in {"stop_exists", "stop_retry"} /\ pc'[s] # "stop_insert") =>
              tables' = tables]_vars

\* A max-code query has failed while the store holds a stop and a shipment:
\* the operation has ended with the exception and the caller has not handled
\* it yet.
C17_Witness ==
  \E s \in Sessions :
    /\ pc[s] = "raised"
    /\ loc[s].code = <<"StoreUnavailable">>
    /\ Len(stops) = 1
    /\ Len(shipments) = 1

\* new is old with some of its entries taken out, the rest in their order.
RECURSIVE IsSubSeq(_, _)
IsSubSeq(new, old) ==
  IF new = <<>> THEN TRUE
  ELSE IF old = <<>> THEN FALSE
  ELSE IF Head(new) = Head(old) THEN IsSubSeq(Tail(new), Tail(old))
  ELSE IsSubSeq(new, Tail(old))

\* What a step may do to a table: leave it, add one row at the end, or
\* delete rows.
WrittenOnce(tbl, tblNext) ==
  \/ tblNext = tbl
  \/ Len(tblNext) = Len(tbl) + 1 /\ SubSeq(tblNext, 1, Len(tbl)) = tbl
  \/ Len(tblNext) < Len(tbl) /\ IsSubSeq(tblNext, tbl)

\* C19: a code is written once and never mutated. Every step leaves the rows
\* of the four tables as they are, adds a row, or deletes rows: the DROP_NO,
\* ORDER_ID, SID_ID or OSD_INDEX of a row that stays is never changed, and
\* the only update, set_primary_sid, changes nothing but the SID column of
\* shipment rows. A code leaves its series only with the delete of its row.
C19_CodesWrittenOnce ==
  [][/\ WrittenOnce(stops, stops')
     /\ WrittenOnce(sids, sids')
     /\ WrittenOnce(osds, osds')
     /\ \/ WrittenOnce(shipments, shipments')
        \/ /\ Len(shipments') = Len(shipments)
           /\ \A i \in 1..Len(shipments) :
                shipments'[i] = [shipments[i] EXCEPT !.SID = shipments'[i].SID]]_vars

\* set_primary_sid has written a SID number into a shipment row, whose
\* ORDER_ID is the first code of the series as allocated.
C19_Witness ==
  /\ Len(shipments) = 1
  /\ shipments[1].SID # None
  /\ shipments[1].ORDER_ID = MinCode

\* ------------------------------------------------------------------------
\* One user at the forms: every button handler runs as a whole, the store
\* being used by this session alone
\* ------------------------------------------------------------------------

MaxManifests == 1

FormMaxStops == 2

FormMaxShipments == 1

FormMaxSids == 2

FormMaxOsds == 1

FormMaxSidList == 2

\* What the manifest number input may hold: nothing, a blank, two numbers.
ManifestInputs == {<<>>, <<" ">>, <<"M", "1">>, <<"M", "2">>}

\* What the SID input of the shipment form may hold.
ShipmentSidInputs == {<<>>, <<"7">>}

\* What the rows of the SID editor may hold when Save SIDs is clicked.
SidRowInputs == {<<" ">>, <<"7">>, <<"7", " ">>, <<"8">>}

SidRows == UNION {[1..k -> SidRowInputs] : k \in 1..FormMaxSidList}

\* SessionManager.get: the value of a key, the default when it is missing
get(value, default) == IF value = Absent THEN default ELSE value

get_mode == get(ss.mode, <<"create">>)

get_current_manifest == get(ss.current_manifest_no, None)

get_manifest_info == get(ss.last_created_manifest, None)

get_current_stop == get(ss.current_stop_drop_no, None)

get_selected_stop == get(ss.selected_stop_drop_no, None)

\* Python's truth value of a str | None (a dict that is never empty counts
\* as a value)
Truthy(v) == v # None /\ v # <<>>

\* The dict that set_manifest_info stores, of which the MANIFEST_NO is kept.
manifest_info(manifest_no) == manifest_no

\* SessionManager.reset_manifest_state: the keys of keys_to_clear are
\* deleted (those of the form widgets are not part of the state here), then
\* mode is set.
reset_manifest_state(state) ==
  [state EXCEPT !.mode = <<"create">>, !.current_manifest_no = Absent,
                !.last_created_manifest = Absent, !.current_stop_drop_no = Absent]

\* SessionManager.clear_sid_editor
clear_sid_editor(state, order_id) ==
  [state EXCEPT !.sids_open = @ \ {order_id}, !.sids_rows = @ \ {order_id}]

\* DatabaseManager.manifest_exists
manifest_exists(manifest_no) == \E i \in 1..Len(manifests) : manifests[i] = manifest_no

\* get_stops_for_manifest, as the DROP_NOs of the rows
get_stops_for_manifest(manifest_no) ==
  {stops[i].DROP_NO : i \in {k \in 1..Len(stops) : stops[k].MANIFEST_NO = manifest_no}}

\* get_shipments_for_drop, as the ORDER_IDs of the rows
get_shipments_for_drop(drop_no) ==
  {shipments[i].ORDER_ID : i \in {k \in 1..Len(shipments) : shipments[k].DROP_NO = drop_no}}

\* get_primary_sid: result[0]["SID"] if result else None
get_primary_sid(order_id) ==
  LET result == SelectSeq(shipments, LAMBDA r : r.ORDER_ID = order_id)
  IN IF result = <<>> THEN None ELSE result[1].SID

\* The order of two strings of digits and letters in the store's collation:
\* by code point, a proper prefix first.
RECURSIVE StringLess(_, _)
StringLess(a, b) ==
  IF b = <<>> THEN FALSE
  ELSE IF a = <<>> THEN TRUE
  ELSE IF Head(a) = Head(b) THEN StringLess(Tail(a), Tail(b))
  ELSE Ord(Head(a)) < Ord(Head(b))

\* The rows as the store holds them, with no ORDER BY.
row_order(rows) == rows

\* ORDER BY SID_NUMBER
RECURSIVE order_by_sid_number(_)
order_by_sid_number(rows) ==
  IF rows = <<>> THEN <<>>
  ELSE LET i == CHOOSE k \in 1..Len(rows) :
                  \A j \in 1..Len(rows) : ~StringLess(rows[j].SID_NUMBER, rows[k].SID_NUMBER)
       IN <<rows[i]>> \o order_by_sid_number(SubSeq(rows, 1, i - 1)
                                               \o SubSeq(rows, i + 1, Len(rows)))

\* get_sids_for_order: the SID rows of the order, ORDER BY SID_NUMBER
get_sids_for_order(order_id) ==
  order_by_sid_number(SelectSeq(sids, LAMBDA r : r.ORDER_ID = order_id))

\* sql_literal on a str | None: NULL for None and for a blank, else the
\* stripped text
sql_literal(val) == IF val = None \/ strip(val) = <<>> THEN None ELSE strip(val)

\* The value set_primary_sid writes: NULL for None or a blank, else the text
\* as it is
primary_value(sid_number) ==
  IF sid_number = None \/ strip(sid_number) = <<>> THEN None ELSE sid_number

\* insert_stop run alone: what the stops are afterwards and what it returns
insert_stop(manifest_no) ==
  LET first == next_drop_no
      drop_no == IF stop_exists(first.val) THEN next_drop_no ELSE first
  IN [tbl |-> Append(stops, [MANIFEST_NO |-> manifest_no, DROP_NO |-> drop_no.val]),
      ret |-> drop_no.val,
      sent |-> IF stop_exists(first.val) THEN 4 ELSE 3]

\* insert_shipment run alone
insert_shipment(drop_no, sid) ==
  LET order_id == next_order_id
  IN [tbl |-> Append(shipments, [ORDER_ID |-> order_id.val, DROP_NO |-> drop_no,
                                 SID |-> sql_literal(sid)]),
      ret |-> order_id.val,
      sent |-> 2]

\* insert_osd run alone
insert_osd(order_id) ==
  LET osd_index == next_osd_index
  IN [tbl |-> Append(osds, [OSD_INDEX |-> osd_index.val, ORDER_ID |-> order_id]),
      ret |-> osd_index.val,
      sent |-> 2]

\* add_multiple_sids, lines 228-231: the loop over new_sids, each entry with
\* its own next_sid_id on the rows there are by then
RECURSIVE insert_new_sids(_, _, _)
insert_new_sids(tbl, order_id, new_sids) ==
  IF new_sids = <<>> THEN tbl
  ELSE insert_new_sids(Append(tbl, [SID_ID |-> next_code(Column(tbl, "SID_ID")).val,
                                    ORDER_ID |-> order_id,
                                    SID_NUMBER |-> Head(new_sids)]),
                       order_id, Tail(new_sids))

\* add_multiple_sids that counts the entries of the cleaned list, not the
\* new ones.
add_multiple_sids_counting_clean(order_id, sid_numbers) ==
  LET clean == clean_sids(sid_numbers)
      existing == {sids[j].SID_NUMBER :
                     j \in {k \in 1..Len(sids) : sids[k].ORDER_ID = order_id}}
      new_sids == SelectSeq(clean, LAMBDA x : x \notin existing)
  IN IF clean = <<>> THEN [tbl |-> sids, ret |-> 0, sent |-> 0]
     ELSE [tbl |-> insert_new_sids(sids, order_id, new_sids),
           ret |-> Len(clean),
           sent |-> 1 + 2 * Len(new_sids)]

\* add_multiple_sids run alone: the SID table afterwards, the count it
\* returns, and the statements it sent to the store
add_multiple_sids(order_id, sid_numbers) ==
  LET clean == clean_sids(sid_numbers)
      existing == {sids[j].SID_NUMBER :
                     j \in {k \in 1..Len(sids) : sids[k].ORDER_ID = order_id}}
      new_sids == SelectSeq(clean, LAMBDA x : x \notin existing)
  IN IF clean = <<>> THEN [tbl |-> sids, ret |-> 0, sent |-> 0]
     ELSE [tbl |-> insert_new_sids(sids, order_id, new_sids),
           ret |-> Len(new_sids),
           sent |-> 1 + 2 * Len(new_sids)]

\* delete_stop that removes the stop and its shipments only.
delete_stop_without_cascade(drop_no) ==
  [sids |-> sids,
   osds |-> osds,
   shipments |-> delete_where(shipments, "DROP_NO", {drop_no}),
   stops |-> delete_where(stops, "DROP_NO", {drop_no})]

\* delete_stop run alone: the four tables afterwards
delete_stop(drop_no) ==
  [sids |-> delete_where(sids, "ORDER_ID", orders_of_stop(drop_no)),
   osds |-> delete_where(osds, "ORDER_ID", orders_of_stop(drop_no)),
   shipments |-> delete_where(shipments, "DROP_NO", {drop_no}),
   stops |-> delete_where(stops, "DROP_NO", {drop_no})]

\* delete_shipment run alone: the three tables afterwards
delete_shipment(order_id) ==
  [sids |-> delete_where(sids, "ORDER_ID", {order_id}),
   osds |-> delete_where(osds, "ORDER_ID", {order_id}),
   shipments |-> delete_where(shipments, "ORDER_ID", {order_id})]

\* What a handler that logs leaves in ui: the level of the entry it appended
\* to the activity log, which is the last one from then on.
Click(log) == [log |-> log]

\* The script run that follows a handler: SessionManager() is constructed
\* anew on the session state the handler left.
Rerun(state) == ss' = initialize_defaults(state)

\* main, lines 68-73, and render_create_mode, lines 53-54: what is on the page
CreateModeShown == get_mode = <<"create">>

RetrieveModeShown == get_mode = <<"retrieve">>

ManifestShown == CreateModeShown /\ Truthy(get_manifest_info)

\* render_create_mode, lines 64-67: the shipment section of the selected stop
ShipmentSectionShown == ManifestShown /\ Truthy(get_selected_stop)

\* _render_shipment_management: the shipments whose items are on the page
ShipmentItems ==
  IF ShipmentSectionShown THEN get_shipments_for_drop(get_selected_stop) ELSE {}

\* render_top_navigation, lines 22-26
click_create_manifest ==
  /\ Rerun([ss EXCEPT !.mode = <<"create">>, !.current_stop_drop_no = None])
  /\ ui' = Click("INFO")
  /\ UNCHANGED <<manifests, tables, pc, loc, collided, seqVars, allocVars>>

\* render_top_navigation, lines 29-33
click_retrieve_manifest ==
  /\ Rerun([ss EXCEPT !.mode = <<"retrieve">>, !.current_stop_drop_no = None])
  /\ ui' = Click("INFO")
  /\ UNCHANGED <<manifests, tables, pc, loc, collided, seqVars, allocVars>>

\* render_top_navigation, lines 36-40
click_save_and_reset ==
  /\ Rerun(reset_manifest_state(ss))
  /\ ui' = Click("INFO")
  /\ UNCHANGED <<manifests, tables, pc, loc, collided, seqVars, allocVars>>

\* The create-manifest form without its manifest_exists check.
create_manifest_unchecked(manifest_no) ==
  IF strip(manifest_no) = <<>>
  THEN [manifests |-> manifests, ss |-> ss, log |-> "WARNING"]
  ELSE [manifests |-> Append(manifests, manifest_no),
        ss |-> [ss EXCEPT !.current_manifest_no = manifest_no,
                          !.last_created_manifest = manifest_info(manifest_no),
                          !.current_stop_drop_no = None],
        log |-> "INFO"]

\* _render_manifest_form, lines 95-129, on a submitted manifest number: the
\* manifest table and the session state afterwards, and the level logged
create_manifest(manifest_no) ==
  IF strip(manifest_no) = <<>>
  THEN [manifests |-> manifests, ss |-> ss, log |-> "WARNING"]
  ELSE IF manifest_exists(manifest_no)
  THEN [manifests |-> manifests, ss |-> ss, log |-> "WARNING"]
  ELSE [manifests |-> Append(manifests, manifest_no),
        ss |-> [ss EXCEPT !.current_manifest_no = manifest_no,
                          !.last_created_manifest = manifest_info(manifest_no),
                          !.current_stop_drop_no = None],
        log |-> "INFO"]

\* The create-manifest form is submitted.
submit_manifest_form ==
  /\ CreateModeShown
  /\ \E manifest_no \in ManifestInputs :
       LET done == create_manifest(manifest_no)
       IN /\ Len(done.manifests) <= MaxManifests
          /\ manifests' = done.manifests
          /\ Rerun(done.ss)
          /\ ui' = Click(done.log)
  /\ UNCHANGED <<tables, pc, loc, collided, seqVars, allocVars>>

\* render_retrieve_mode, lines 813-836: Set as Current Manifest, for a
\* manifest the search found
click_set_current_manifest ==
  /\ RetrieveModeShown
  /\ \E chosen \in Range(manifests) :
       /\ Rerun([ss EXCEPT !.current_manifest_no = chosen,
                           !.last_created_manifest = manifest_info(chosen),
                           !.mode = <<"create">>,
                           !.current_stop_drop_no = None])
       /\ ui' = Click("INFO")
  /\ UNCHANGED <<manifests, tables, pc, loc, collided, seqVars, allocVars>>

\* _render_stop_form, lines 170-185: Add Stop
click_add_stop ==
  /\ ManifestShown
  /\ IF ~Truthy(get_current_manifest)
     THEN /\ ui' = Click("ERROR")
          /\ Rerun(ss)
          /\ UNCHANGED stops
     ELSE LET done == insert_stop(get_current_manifest)
          IN /\ Len(stops) < FormMaxStops
             /\ WithinCap(next_drop_no)
             /\ stops' = done.tbl
             /\ Rerun([ss EXCEPT !.current_stop_drop_no = done.ret,
                                 !.selected_stop_drop_no = done.ret])
             /\ ui' = Click("INFO")
  /\ UNCHANGED <<manifests, shipments, sids, osds, pc, loc, collided, seqVars, allocVars>>

\* _render_stop_selector, lines 194-243: Select Stop, with an option of the
\* dropdown
click_select_stop ==
  /\ ManifestShown
  /\ Truthy(get_current_manifest)
  /\ \E selected_drop_no \in get_stops_for_manifest(get_current_manifest) :
       /\ Rerun([ss EXCEPT !.selected_stop_drop_no = selected_drop_no])
       /\ ui' = Click("INFO")
  /\ UNCHANGED <<manifests, tables, pc, loc, collided, seqVars, allocVars>>

\* _render_working_stop_header, lines 252-274: Clear Selection, shown when
\* the selected stop is among the stops of the current manifest
click_clear_selection ==
  /\ ShipmentSectionShown
  /\ Truthy(get_current_manifest)
  /\ get_selected_stop \in get_stops_for_manifest(get_current_manifest)
  /\ Rerun([ss EXCEPT !.selected_stop_drop_no = None])
  /\ ui' = Click("INFO")
  /\ UNCHANGED <<manifests, tables, pc, loc, collided, seqVars, allocVars>>

\* _render_shipment_form, lines 358-367: Add Shipment, under the selected
\* stop
submit_shipment_form ==
  /\ ShipmentSectionShown
  /\ Len(shipments) < FormMaxShipments
  /\ WithinCap(next_order_id)
  /\ \E sid \in ShipmentSidInputs :
       LET done == insert_shipment(get_selected_stop, sid)
       IN /\ shipments' = done.tbl
          /\ ui' = Click("INFO")
  /\ Rerun(ss)
  /\ UNCHANGED <<manifests, stops, sids, osds, pc, loc, collided, seqVars, allocVars>>

\* _render_shipment_item, lines 405-407: Multiple SID/PO. The run that
\* follows renders the editor, whose get_sid_rows creates the rows key.
click_multiple_sid ==
  /\ \E order_id \in ShipmentItems :
       /\ Rerun([ss EXCEPT !.sids_open = @ \cup {order_id}, !.sids_rows = @ \cup {order_id}])
  /\ UNCHANGED <<ui, manifests, tables, pc, loc, collided, seqVars, allocVars>>

\* _render_shipment_item, lines 430-435: Delete this shipment
click_delete_shipment ==
  /\ \E order_id \in ShipmentItems :
       LET done == delete_shipment(order_id)
       IN /\ sids' = done.sids
          /\ osds' = done.osds
          /\ shipments' = done.shipments
          /\ ui' = Click("INFO")
  /\ Rerun(ss)
  /\ UNCHANGED <<manifests, stops, pc, loc, collided, seqVars, allocVars>>

\* The Delete button of a SID row that never touches the primary SID.
delete_sid_button_keeping_primary(order_id, sid_row) ==
  [shipments |-> shipments,
   sids |-> delete_where(sids, "SID_ID", {sid_row.SID_ID}),
   sent |-> <<"SELECT", "DELETE">>]

\* _display_current_sids, lines 460-470, Delete on a SID row of the order:
\* the shipments and the SID rows afterwards, and the statements sent to the
\* store in the order they were sent
delete_sid_button(order_id, sid_row) ==
  LET current_primary == get_primary_sid(order_id)
  IN [shipments |-> IF current_primary = sid_row.SID_NUMBER
                    THEN update_sid(order_id, primary_value(None))
                    ELSE shipments,
      sids |-> delete_where(sids, "SID_ID", {sid_row.SID_ID}),
      sent |-> IF current_primary = sid_row.SID_NUMBER
               THEN <<"SELECT", "UPDATE", "DELETE">>
               ELSE <<"SELECT", "DELETE">>]

\* Delete is clicked on a SID row of a shipment on the page.
click_delete_sid ==
  /\ \E order_id \in ShipmentItems :
       \E sid_row \in Range(get_sids_for_order(order_id)) :
         LET done == delete_sid_button(order_id, sid_row)
         IN /\ shipments' = done.shipments
            /\ sids' = done.sids
  /\ ui' = Click("INFO")
  /\ Rerun(ss)
  /\ UNCHANGED <<manifests, stops, osds, pc, loc, collided, seqVars, allocVars>>

\* _render_primary_sid_selector, lines 482-506: Save Primary SID, with an
\* option of the selectbox
click_save_primary_sid ==
  /\ \E order_id \in ShipmentItems :
       \E selected \in {None} \cup {r.SID_NUMBER : r \in Range(get_sids_for_order(order_id))} :
         /\ shipments' = update_sid(order_id, primary_value(selected))
         /\ ui' = Click("INFO")
  /\ Rerun(ss)
  /\ UNCHANGED <<manifests, stops, sids, osds, pc, loc, collided, seqVars, allocVars>>

\* _render_sid_editor, lines 556-572, Save SIDs with the rows of the editor
\* as the user left them: the SID rows, the shipments and the session state
\* afterwards, and the count add_multiple_sids returned
save_sids_button(order_id, sid_rows) ==
  LET done == add_multiple_sids(order_id, sid_rows)
      current_primary == get_primary_sid(order_id)
      sids_after == order_by_sid_number(SelectSeq(done.tbl, LAMBDA r : r.ORDER_ID = order_id))
  IN [sids |-> done.tbl,
      shipments |-> IF ~Truthy(current_primary) /\ sids_after # <<>>
                    THEN update_sid(order_id, primary_value(sids_after[1].SID_NUMBER))
                    ELSE shipments,
      ss |-> clear_sid_editor(ss, order_id),
      added_count |-> done.ret]

\* Save SIDs is clicked in an open SID editor.
click_save_sids ==
  /\ \E order_id \in ShipmentItems \cap ss.sids_open :
       \E sid_rows \in SidRows :
         LET done == save_sids_button(order_id, sid_rows)
         IN /\ Len(done.sids) <= FormMaxSids
            /\ \A r \in Range(done.sids) : WithinCap(Returned(r.SID_ID))
            /\ sids' = done.sids
            /\ shipments' = done.shipments
            /\ Rerun(done.ss)
  /\ ui' = Click("INFO")
  /\ UNCHANGED <<manifests, stops, osds, pc, loc, collided, seqVars, allocVars>>

\* _render_sid_editor, lines 579-581: Cancel
click_cancel_sids ==
  /\ \E order_id \in ShipmentItems \cap ss.sids_open :
       /\ Rerun(clear_sid_editor(ss, order_id))
  /\ UNCHANGED <<ui, manifests, tables, pc, loc, collided, seqVars, allocVars>>

\* _render_osd_editor, lines 668-685: Add OSD Row. The key that toggles the
\* OSD editor of a shipment is not part of ss: OSD and Close OSD change
\* nothing else, so the buttons of the editor are taken as on the page with
\* the shipment item.
click_add_osd ==
  /\ Len(osds) < FormMaxOsds
  /\ WithinCap(next_osd_index)
  /\ \E order_id \in ShipmentItems :
       LET done == insert_osd(order_id)
       IN /\ osds' = done.tbl
          /\ ui' = Click("INFO")
  /\ Rerun(ss)
  /\ UNCHANGED <<manifests, stops, shipments, sids, pc, loc, collided, seqVars, allocVars>>

\* _render_osd_editor, lines 611-616: Delete, on an OSD row of the order
click_delete_osd ==
  /\ \E order_id \in ShipmentItems :
       \E i \in {k \in 1..Len(osds) : osds[k].ORDER_ID = order_id} :
         /\ osds' = delete_where(osds, "OSD_INDEX", {osds[i].OSD_INDEX})
         /\ ui' = Click("INFO")
  /\ Rerun(ss)
  /\ UNCHANGED <<manifests, stops, shipments, sids, pc, loc, collided, seqVars, allocVars>>

\* _render_stops_overview, lines 742-752: Delete This Stop, on a stop of the
\* current manifest
click_delete_stop ==
  /\ ManifestShown
  /\ Truthy(get_current_manifest)
  /\ \E drop_no \in get_stops_for_manifest(get_current_manifest) :
       LET done == delete_stop(drop_no)
       IN /\ sids' = done.sids
          /\ osds' = done.osds
          /\ shipments' = done.shipments
          /\ stops' = done.stops
          /\ Rerun([ss EXCEPT
                      !.current_stop_drop_no = IF get_current_stop = drop_no THEN None ELSE @])
          /\ ui' = Click("INFO")
  /\ UNCHANGED <<manifests, pc, loc, collided, seqVars, allocVars>>

FormNext ==
  \/ click_create_manifest
  \/ click_retrieve_manifest
  \/ click_save_and_reset
  \/ submit_manifest_form
  \/ click_set_current_manifest
  \/ click_add_stop
  \/ click_select_stop
  \/ click_clear_selection
  \/ submit_shipment_form
  \/ click_multiple_sid
  \/ click_delete_shipment
  \/ click_delete_sid
  \/ click_save_primary_sid
  \/ click_save_sids
  \/ click_cancel_sids
  \/ click_add_osd
  \/ click_delete_osd
  \/ click_delete_stop

SpecForms == Init /\ [][FormNext]_vars

\* Every shipment row names a stop row, and every SID row and OSD row names a
\* shipment row.
ReferentiallyIntact(stopRows, shipmentRows, sidRows, osdRows) ==
  /\ \A r \in Range(shipmentRows) : \E p \in Range(stopRows) : p.DROP_NO = r.DROP_NO
  /\ \A r \in Range(sidRows) : \E p \in Range(shipmentRows) : p.ORDER_ID = r.ORDER_ID
  /\ \A r \in Range(osdRows) : \E p \in Range(shipmentRows) : p.ORDER_ID = r.ORDER_ID

\* C22 (as claimed): under any interleaving of inserts and deletes by the
\* sessions, whenever no operation is in progress the store holds no orphan:
\* no shipment of a missing stop, no SID or OSD row of a missing shipment.
C22_NoOrphansWhenIdle ==
  AllFinished => ReferentiallyIntact(stops, shipments, sids, osds)

\* C21: a code is removed only together with every row that references it.
\* Whatever the store holds when the one user deletes, delete_stop(d) run as
\* a whole leaves no stop row d, no shipment row with DROP_NO d and no SID or
\* OSD row of a shipment of d, and delete_shipment(o) leaves no shipment, SID
\* or OSD row with ORDER_ID o; the rows of the other stops and shipments are
\* the ones there were, in the order they had.
C21_DeleteRemovesAllReferences ==
  /\ \A d \in Carried(stops, "DROP_NO") \cup Carried(shipments, "DROP_NO") :
       LET done == delete_stop(d)
           gone == orders_of_stop(d)
       IN /\ d \notin Carried(done.stops, "DROP_NO")
          /\ d \notin Carried(done.shipments, "DROP_NO")
          /\ gone \cap Carried(done.sids, "ORDER_ID") = {}
          /\ gone \cap Carried(done.osds, "ORDER_ID") = {}
          /\ done.stops = SelectSeq(stops, LAMBDA r : r.DROP_NO # d)
          /\ done.shipments = SelectSeq(shipments, LAMBDA r : r.DROP_NO # d)
          /\ done.sids = SelectSeq(sids, LAMBDA r : r.ORDER_ID \notin gone)
          /\ done.osds = SelectSeq(osds, LAMBDA r : r.ORDER_ID \notin gone)
  /\ \A o \in Carried(shipments, "ORDER_ID") :
       LET done == delete_shipment(o)
       IN /\ o \notin Carried(done.shipments, "ORDER_ID")
          /\ o \notin Carried(done.sids, "ORDER_ID")
          /\ o \notin Carried(done.osds, "ORDER_ID")
          /\ done.shipments = SelectSeq(shipments, LAMBDA r : r.ORDER_ID # o)
          /\ done.sids = SelectSeq(sids, LAMBDA r : r.ORDER_ID # o)
          /\ done.osds = SelectSeq(osds, LAMBDA r : r.ORDER_ID # o)

\* A stop with a shipment that has a SID row and an OSD row is deleted while
\* the manifest has a second stop: the second stop is all that is left.
C21_Witness ==
  \E d \in Carried(stops, "DROP_NO") :
    /\ Len(stops) = 2
    /\ orders_of_stop(d) # {}
    /\ orders_of_stop(d) \cap Carried(sids, "ORDER_ID") # {}
    /\ orders_of_stop(d) \cap Carried(osds, "ORDER_ID") # {}
    /\ Len(delete_stop(d).stops) = 1
    /\ delete_stop(d).shipments = <<>>
    /\ delete_stop(d).sids = <<>>
    /\ delete_stop(d).osds = <<>>

\* C23 (as claimed): in a single session, after any sequence of clicks the
\* selected stop reads None or is the DROP_NO of a stop row that exists and
\* belongs to the current manifest, so that the shipment form, which inserts
\* under the selected stop, never inserts under a deleted stop or a stop of
\* another manifest: every shipment row names a stop row.
C23_SelectedStopIsLive ==
  /\ \/ get_selected_stop = None
     \/ \E r \in Range(stops) : /\ r.DROP_NO = get_selected_stop
                                /\ r.MANIFEST_NO = get_current_manifest
  /\ \A r \in Range(shipments) : r.DROP_NO \in Carried(stops, "DROP_NO")

\* The SID_NUMBERs the order has in the SID table.
sid_numbers_of(order_id) ==
  {sids[j].SID_NUMBER : j \in {k \in 1..Len(sids) : sids[k].ORDER_ID = order_id}}

\* C24: add_multiple_sids(order, numbers) leaves the rows there were and
\* appends one SID row of the order, with a SID_ID no row before it carries,
\* for each stripped non-blank entry that is not already a SID_NUMBER of the
\* order, in the order of the list; it appends nothing for a blank or an
\* existing entry, returns the number of rows it appended, and when every
\* entry is blank it returns 0 having sent no statement to the store.
C24_AddMultipleSidsAddsNewEntries ==
  \A order_id \in Carried(shipments, "ORDER_ID") :
    \A numbers \in SidRows :
      LET done == add_multiple_sids(order_id, numbers)
          stripped == [i \in 1..Len(numbers) |-> strip(numbers[i])]
          wanted == SelectSeq(stripped,
                              LAMBDA x : x # <<>> /\ x \notin sid_numbers_of(order_id))
          added == SubSeq(done.tbl, Len(sids) + 1, Len(done.tbl))
      IN /\ Len(done.tbl) >= Len(sids)
         /\ SubSeq(done.tbl, 1, Len(sids)) = sids
         /\ Column(added, "SID_NUMBER") = wanted
         /\ \A i \in 1..Len(added) :
              /\ added[i].ORDER_ID = order_id
              /\ added[i].SID_ID \notin
                   Carried(SubSeq(done.tbl, 1, Len(sids) + i - 1), "SID_ID")
         /\ done.ret = Len(added)
         /\ (\A i \in 1..Len(numbers) : stripped[i] = <<>>) =>
              done.ret = 0 /\ done.sent = 0

\* An order that has a SID is given a list of an entry it has, to be
\* stripped, and an entry it has not: one row is added, 1 is returned.
C24_Witness ==
  \E order_id \in Carried(shipments, "ORDER_ID") :
    \E numbers \in SidRows :
      /\ Len(numbers) = 2
      /\ numbers[1] # strip(numbers[1])
      /\ strip(numbers[1]) \in sid_numbers_of(order_id)
      /\ strip(numbers[2]) \notin sid_numbers_of(order_id)
      /\ add_multiple_sids(order_id, numbers).ret = 1
      /\ Len(add_multiple_sids(order_id, numbers).tbl) = Len(sids) + 1

\* No order has two SID rows with the same SID_NUMBER.
SidNumbersDistinct(tbl) ==
  \A i, j \in 1..Len(tbl) :
    (tbl[i].ORDER_ID = tbl[j].ORDER_ID /\ tbl[i].SID_NUMBER = tbl[j].SID_NUMBER) => i = j

\* C25 (as claimed): add_multiple_sids filters out duplicates. The orders
\* start with no SID row, and after any sequence of add_multiple_sids calls,
\* each run as a whole by Save SIDs, also with a list that repeats a number,
\* no order has two SID rows of the same SID_NUMBER.
C25_NoDuplicateSidNumbers == SidNumbersDistinct(sids)

\* C26: Delete on a SID row clears the primary SID exactly when it deletes
\* the current primary. If the SID_NUMBER of the row is the primary SID of
\* the shipment, the primary is set to NULL by an UPDATE sent before the
\* DELETE of the row; otherwise no UPDATE is sent and the shipments are as
\* they were. In both cases the SID rows left are all the rows but the chosen
\* one, and nothing of a shipment other than the SID column changes.
C26_DeleteSidClearsItsPrimary ==
  \A order_id \in Carried(shipments, "ORDER_ID") :
    \A sid_row \in Range(get_sids_for_order(order_id)) :
      LET done == delete_sid_button(order_id, sid_row)
          primary == get_primary_sid(order_id)
      IN /\ done.sids = SelectSeq(sids, LAMBDA r : r # sid_row)
         /\ Len(done.sids) = Len(sids) - 1
         /\ IF primary = sid_row.SID_NUMBER
            THEN /\ done.sent = <<"SELECT", "UPDATE", "DELETE">>
                 /\ Len(done.shipments) = Len(shipments)
                 /\ \A i \in 1..Len(shipments) :
                      done.shipments[i] =
                        IF shipments[i].ORDER_ID = order_id
                        THEN [shipments[i] EXCEPT !.SID = None]
                        ELSE shipments[i]
            ELSE /\ done.sent = <<"SELECT", "DELETE">>
                 /\ done.shipments = shipments

\* A shipment has two SID rows, one of them its primary SID: Delete on that
\* one leaves the shipment with no primary, Delete on the other leaves the
\* primary.
C26_Witness ==
  \E order_id \in Carried(shipments, "ORDER_ID") :
    \E a, b \in Range(get_sids_for_order(order_id)) :
      /\ a.SID_NUMBER # b.SID_NUMBER
      /\ get_primary_sid(order_id) = a.SID_NUMBER
      /\ delete_sid_button(order_id, a).shipments # shipments
      /\ delete_sid_button(order_id, a).sids = <<b>>
      /\ delete_sid_button(order_id, b).shipments = shipments
      /\ delete_sid_button(order_id, b).sids = <<a>>

\* C27: Save SIDs sets a primary only when there is none. If the shipment had
\* no primary SID and has at least one SID row once the entries are added,
\* its primary SID becomes the least SID_NUMBER of its rows in ascending
\* order; a primary that was set stays as it was, as does every other
\* shipment; and the SID editor of the order is closed with its rows cleared,
\* those of other orders being left as they are.
C27_SaveSidsSetsMissingPrimary ==
  \A order_id \in Carried(shipments, "ORDER_ID") :
    \A sid_rows \in SidRows :
      LET done == save_sids_button(order_id, sid_rows)
          before == get_primary_sid(order_id)
          mine == {r \in Range(done.sids) : r.ORDER_ID = order_id}
      IN /\ Len(done.shipments) = Len(shipments)
         /\ \A i \in 1..Len(shipments) :
              IF shipments[i].ORDER_ID = order_id /\ before \in {None, <<>>} /\ mine # {}
              THEN /\ done.shipments[i] = [shipments[i] EXCEPT !.SID = done.shipments[i].SID]
                   /\ done.shipments[i].SID \in {r.SID_NUMBER : r \in mine}
                   /\ \A r \in mine : ~StringLess(r.SID_NUMBER, done.shipments[i].SID)
              ELSE done.shipments[i] = shipments[i]
         /\ order_id \notin done.ss.sids_open
         /\ order_id \notin done.ss.sids_rows
         /\ done.ss.sids_open = ss.sids_open \ {order_id}
         /\ done.ss.sids_rows = ss.sids_rows \ {order_id}
         /\ done.sids = add_multiple_sids(order_id, sid_rows).tbl

\* The editor of a shipment with no primary SID and no SID row is open and
\* the rows '8' and '7' are saved: both are inserted in that order, the
\* primary becomes '7', and the editor is closed.
C27_Witness ==
  \E order_id \in Carried(shipments, "ORDER_ID") \cap ss.sids_open :
    /\ get_primary_sid(order_id) = None
    /\ get_sids_for_order(order_id) = <<>>
    /\ \E sid_rows \in SidRows :
         LET done == save_sids_button(order_id, sid_rows)
         IN /\ Len(done.sids) = 2
            /\ done.sids[1].SID_NUMBER = <<"8">>
            /\ done.sids[2].SID_NUMBER = <<"7">>
            /\ \E r \in Range(done.shipments) : r.ORDER_ID = order_id /\ r.SID = <<"7">>
            /\ done.added_count = 2
            /\ done.ss.sids_open = {}

\* No two rows of the manifest table have the same MANIFEST_NO.
ManifestNumbersDistinct(tbl) ==
  \A i, j \in 1..Len(tbl) : tbl[i] = tbl[j] => i = j

\* C28: the create-manifest form submitted with a blank manifest number or
\* with a MANIFEST_NO that exists is rejected: no row is inserted, the
\* session state, so the current manifest and the manifest info, is as it
\* was, and a WARNING is logged. With the submissions handled one at a time
\* the manifest table never holds two rows with the same MANIFEST_NO, and no
\* submission makes it hold two.
C28_RejectsBlankAndDuplicateManifest ==
  /\ ManifestNumbersDistinct(manifests)
  /\ \A manifest_no \in ManifestInputs :
       LET done == create_manifest(manifest_no)
       IN /\ ManifestNumbersDistinct(done.manifests)
          /\ (strip(manifest_no) = <<>> \/ manifest_no \in Range(manifests)) =>
               /\ done.manifests = manifests
               /\ done.ss = ss
               /\ done.log = "WARNING"

\* A manifest is current, a submission has just been rejected with a
\* WARNING, and submitting the number of the manifest again is rejected.
C28_Witness ==
  /\ ui.log = "WARNING"
  /\ Truthy(get_current_manifest)
  /\ manifests = <<get_current_manifest>>
  /\ create_manifest(get_current_manifest).log = "WARNING"
  /\ create_manifest(get_current_manifest).manifests = manifests

\* C29 (as claimed): reset_manifest_state resets all the manifest-related
\* session state. From any session state, afterwards the mode reads "create"
\* and the current manifest, the manifest info, the current stop and the
\* selected stop all read None.
C29_ResetClearsManifestState ==
  LET state == reset_manifest_state(ss)
  IN /\ get(state.mode, <<"create">>) = <<"create">>
     /\ get(state.current_manifest_no, None) = None
     /\ get(state.last_created_manifest, None) = None
     /\ get(state.current_stop_drop_no, None) = None
     /\ get(state.selected_stop_drop_no, None) = None

====
